---- MODULE Spec2Model ----
(***************************************************************************)
(* kvt: the staged-edit / undo / commit engine of KvtApp (src/kvt/app.py) *)
(* over a SecretProvider whose writes can fail (src/kvt/providers_azure.py)*)
(***************************************************************************)
EXTENDS Naturals, Sequences, FiniteSets, TLC

\* ------------------------------------------------------------------ bounds
\* Longest undo stack a staging operation may still extend.
MaxLog == 2
\* Longest working copy an operation may still extend.
MaxVars == 2

\* Most saves in one run, not counting the direct retry of a failed save.
MaxSaves == 1
\* Longest undo stack under SpecStage.
StageMaxLog == 3
\* Longest undo stack under SpecDrill.
DrillMaxLog == 2
\* Longest string, in characters, handed to is_multiline and parse_dotenv_blob.
MaxBlobLen == 6
\* Longest list handed to encode_dotenv_blob.
MaxCodecVars == 2
\* Most calls made on a remote provider in one run.
MaxCalls == 3
\* Most staged actions and most saves started on a hybrid provider.
HybridMaxLog == 2
HybridMaxSaves == 1
\* The same two bounds where the user also navigates between environments.
NavMaxLog == 1
NavMaxSaves == 1
\* Most _navigate_to workers asleep at once.
MaxPending == 1

\* Secret names and secret values the user can type.
Keys == {"K1", "K2"}
Values == {"a", "b"}

\* Python's None (previous_value / old_key of an Action, a missing dict key).
None == "None"

\* ------------------------------------------------------------- data model
\* models.EnvVar: is_multiline defaults to False.
EnvVar(key, value) == [key |-> key, value |-> value, is_multiline |-> FALSE]

\* models.Action: a reversible mutation.
Action(kind, key, value, previous_value, old_key) ==
    [kind |-> kind, key |-> key, value |-> value,
     previous_value |-> previous_value, old_key |-> old_key]

\* next((i for i, v in enumerate(seq) if v.key == key), None), 1-based, 0 = None.
FirstIndex(seq, key) ==
    IF \E i \in 1..Len(seq) : seq[i].key = key
    THEN CHOOSE i \in 1..Len(seq) :
            /\ seq[i].key = key
            /\ \A j \in 1..(i - 1) : seq[j].key # key
    ELSE 0

\* next((a for a in reversed(stack) if a.key == key), None) as an index, 0 = None.
LastIndex(seq, key) ==
    IF \E i \in 1..Len(seq) : seq[i].key = key
    THEN CHOOSE i \in 1..Len(seq) :
            /\ seq[i].key = key
            /\ \A j \in (i + 1)..Len(seq) : seq[j].key # key
    ELSE 0

\* [v for v in seq if v.key != key]
WithoutKey(seq, key) == SelectSeq(seq, LAMBDA v : v.key # key)

\* list.remove(x): drops the first element EQUAL to x (dataclass equality).
ListRemove(seq, x) ==
    IF \E i \in 1..Len(seq) : seq[i] = x
    THEN LET i == CHOOSE n \in 1..Len(seq) :
                     /\ seq[n] = x
                     /\ \A m \in 1..(n - 1) : seq[m] # x
         IN  SubSeq(seq, 1, i - 1) \o SubSeq(seq, i + 1, Len(seq))
    ELSE seq

\* ------------------------------------------------------------ .env blobs
\* The two-character sequence backslash-n that separates the lines of a blob.
Marker == "\\n"

\* str.find(Marker), 1-based, 0 when the marker does not occur.
FindMarker(s) ==
    IF \E i \in 2..Len(s) : SubSeq(s, i - 1, i) = Marker
    THEN CHOOSE i \in 1..Len(s) :
            /\ i < Len(s)
            /\ SubSeq(s, i, i + 1) = Marker
            /\ \A j \in 1..(i - 1) : SubSeq(s, j, j + 1) # Marker
    ELSE 0

\* str.split(Marker)
RECURSIVE SplitMarker(_)
SplitMarker(s) ==
    LET i == FindMarker(s)
    IN  IF i = 0 THEN << s >>
        ELSE << SubSeq(s, 1, i - 1) >> \o SplitMarker(SubSeq(s, i + 2, Len(s)))

IsSpace(c) == c \in {" ", "\t"}

\* str.strip()
RECURSIVE LStrip(_)
LStrip(s) ==
    IF Len(s) > 0 /\ IsSpace(SubSeq(s, 1, 1)) THEN LStrip(SubSeq(s, 2, Len(s))) ELSE s

RECURSIVE RStrip(_)
RStrip(s) ==
    IF Len(s) > 0 /\ IsSpace(SubSeq(s, Len(s), Len(s)))
    THEN RStrip(SubSeq(s, 1, Len(s) - 1)) ELSE s

Strip(s) == RStrip(LStrip(s))

StartsWith(s, c) == Len(s) > 0 /\ SubSeq(s, 1, 1) = c

\* str.find(c) for one character, 1-based, 0 when absent.
FindChar(s, c) ==
    IF \E i \in 1..Len(s) : SubSeq(s, i, i) = c
    THEN CHOOSE i \in 1..Len(s) :
            /\ SubSeq(s, i, i) = c
            /\ \A j \in 1..(i - 1) : SubSeq(s, j, j) # c
    ELSE 0

\* Mutant of is_multiline: every value that holds the marker is a blob.
HasMarker(value) == FindMarker(value) # 0

\* domain.secrets.is_multiline
is_multiline(value) ==
    /\ FindMarker(value) # 0
    /\ LET lines == SplitMarker(value)
       IN  \E n \in 1..Len(lines) :
              /\ Strip(lines[n]) # ""
              /\ FindChar(lines[n], "=") # 0
              /\ ~StartsWith(lines[n], "#")

\* domain.secrets.parse_dotenv_blob, the loop over the lines.
RECURSIVE ParseLines(_)
ParseLines(lines) ==
    IF lines = << >> THEN << >>
    ELSE LET stripped == Strip(Head(lines))
             eq == FindChar(stripped, "=")
             key == Strip(SubSeq(stripped, 1, eq - 1))
             value == SubSeq(stripped, eq + 1, Len(stripped))
         IN  IF stripped = "" \/ StartsWith(stripped, "#") \/ eq = 0 \/ key = ""
             THEN ParseLines(Tail(lines))
             ELSE << EnvVar(key, value) >> \o ParseLines(Tail(lines))

parse_dotenv_blob(blob) == ParseLines(SplitMarker(blob))

\* domain.secrets.encode_dotenv_blob: Marker.join(KEY=value for each entry)
RECURSIVE encode_dotenv_blob(_)
encode_dotenv_blob(vars_) ==
    IF vars_ = << >> THEN ""
    ELSE IF Len(vars_) = 1 THEN vars_[1].key \o "=" \o vars_[1].value
    ELSE vars_[1].key \o "=" \o vars_[1].value \o Marker \o encode_dotenv_blob(Tail(vars_))

\* ---------------------------------------------------------- provider cache
\* dict[key] = value: in place for a known key, appended for a new one.
DictSet(data, key, value) ==
    LET i == FirstIndex(data, key)
    IN  IF i = 0 THEN Append(data, [key |-> key, value |-> value])
        ELSE [data EXCEPT ![i].value = value]

\* dict.pop(key, None)
DictPop(data, key) == WithoutKey(data, key)

\* dict.get(key)
DictGet(data, key) ==
    LET i == FirstIndex(data, key)
    IN  IF i = 0 THEN None ELSE data[i].value

\* provider.list_vars(): classify_secrets, one EnvVar per cached secret in dict
\* order, tagged is_multiline(value).
ListVars(data) ==
    [i \in 1..Len(data) |->
        [key |-> data[i].key, value |-> data[i].value,
         is_multiline |-> is_multiline(data[i].value)]]

\* The effect on the cache of one provider call whose transport call succeeded.
ProviderApply(data, call) ==
    CASE call.op = "create" -> DictSet(data, call.key, call.value)
      [] call.op = "update" -> DictSet(data, call.key, call.value)
      [] call.op = "delete" -> DictPop(data, call.key)

Call(op, key, value) == [op |-> op, key |-> key, value |-> value]

\* HybridAzureProvider.create / delete, the name list: create appends a name
\* that is not listed, delete removes a listed name; update leaves the list.
NamesAfterCall(names, call, ok) ==
    IF ~ok THEN names
    ELSE IF call.op = "create" /\ (\A i \in 1..Len(names) : names[i] # call.key)
    THEN Append(names, call.key)
    ELSE IF call.op = "delete"
    THEN SelectSeq(names, LAMBDA n : n # call.key)
    ELSE names

\* constants.PROJECTS: the environments of each project, in tab order.
Projects == {"frontend", "infra"}
ProjectEnvs(project) ==
    IF project = "frontend" THEN << "staging", "local" >> ELSE << "staging" >>
Contexts ==
    UNION {{<< p, ProjectEnvs(p)[i] >> : i \in 1..Len(ProjectEnvs(p))} : p \in Projects}
DEFAULT_PROJECT == "frontend"
DEFAULT_ENV == "staging"

\* constants.MOCK_DATA[project][env]: what MockProvider(project, env) starts with.
MockData(project, env) ==
    IF project = "frontend" /\ env = "staging" THEN << [key |-> "K1", value |-> "a"] >>
    ELSE IF project = "frontend" /\ env = "local" THEN << [key |-> "K1", value |-> "b"] >>
    ELSE << [key |-> "K2", value |-> "a"] >>

\* The secrets of the provider the application starts on.
InitialData == MockData(DEFAULT_PROJECT, DEFAULT_ENV)

\* ------------------------------------------------------------------ state
VARIABLES
    all_vars,           \* KvtApp._all_vars: the working copy, a list of EnvVar
    undo_stack,         \* KvtApp._undo_stack: the staged Actions, oldest first
    dirty,              \* KvtApp.dirty
    sub_title,          \* the count of unsaved changes KvtApp.sub_title shows
    provider_data,      \* the provider's _data cache, in dict order
    provider_injected,  \* KvtApp._provider_injected
    current_project,    \* KvtApp.current_project
    current_env,        \* KvtApp.current_env
    nav,                \* the environments of the _navigate_to workers still asleep
    session,            \* the MultilineViewScreen on top of the app, or NoSession
    pc,                 \* "idle", or "commit" while _commit_staged runs
    commit_i,           \* _commit_staged: index of the action being flushed
    commit_j,           \* _commit_staged: provider calls of that action already returned
    committed,          \* _commit_staged: its local list `committed`
    codec,              \* the call of a domain.secrets function under test
    remote,             \* a remote provider called directly: its vault, the rest
                        \* of its fields (provider_data is its _data), its last call
    worker,             \* the thread of _fetch_values_background
    hist                \* history of the run, read only by the properties

vars == << all_vars, undo_stack, dirty, sub_title, provider_data, provider_injected,
           current_project, current_env, nav, session,
           pc, commit_i, commit_j, committed, codec, remote, worker, hist >>

\* What the staging operators leave alone; no method of the application
\* touches codec, and none calls the provider of remote.
nav_vars == << provider_injected, current_project, current_env, nav, codec, remote,
               worker >>

ctx_vars == << provider_injected, current_project, current_env, nav, session,
               codec, remote, worker >>

commit_vars == << pc, commit_i, commit_j, committed >>

\* No function of domain.secrets has been called: text is the string and list
\* the list of EnvVar built so far as an argument, or returned by the last call;
\* arg_text and arg_list are the arguments of the calls made, flag the result
\* of is_multiline.
NoCall ==
    [op |-> "none", text |-> "", list |-> << >>, flag |-> FALSE,
     arg_text |-> "", arg_list |-> << >>]

\* The outcome of a provider call: whether it raised AzureClientError, and what
\* it returned.
Outcome(op, key, raised, value) ==
    [op |-> op, key |-> key, raised |-> raised, value |-> value]

\* No remote provider was constructed.
NoRemote ==
    [kind |-> "none", vault |-> << >>, names |-> << >>, loaded |-> FALSE,
     calls |-> 0, result |-> Outcome("none", None, FALSE, None)]

\* _fetch_values_background was not started. Once started, pc is the place of
\* the thread in fetch_all_values, wanted its list names_without_values, and
\* values the dict that fetch_values_batch has filled so far.
NoWorker == [pc |-> "none", wanted |-> << >>, values |-> << >>]

\* No MultilineViewScreen is on the screen stack.
NoSession == [open |-> FALSE, key |-> None, blob |-> "", vars |-> << >>, dirty |-> FALSE]

\* History kept for the properties: the last operation, whether only staging
\* operations and undo ran since the working copy was loaded, the cache at load,
\* how many saves were started, and for the running or last commit its log and
\* cache at start, the provider calls it issued, where it failed (action k, after
\* j of its calls), whether it retries a failed commit directly, and for such a
\* chain of retries the log and cache at its start and the actions committed.
\* Under a specification that sets track, pre is the working copy, undo stack
\* and dirty flag of just before the last operation, and prev_op the operation
\* before the last one. For a navigation that went ahead, prompted tells whether
\* the discard prompt was shown and confirmed whether the user confirmed it.
NoSnapshot == [vars |-> << >>, log |-> << >>, dirty |-> FALSE]

Snapshot == [vars |-> all_vars, log |-> undo_stack, dirty |-> dirty]

HistInit(data) ==
    [op |-> "load", fresh |-> TRUE, loaded |-> data, saves |-> 0,
     log0 |-> << >>, data0 |-> << >>, calls |-> << >>, k |-> 0, j |-> 0,
     retry |-> FALSE, chain_log |-> << >>, chain_data |-> << >>, chain_done |-> << >>,
     track |-> FALSE, pre |-> NoSnapshot, prev_op |-> "none",
     prompted |-> FALSE, confirmed |-> FALSE]

HistOp(op) ==
    [hist EXCEPT !.op = op, !.log0 = << >>, !.data0 = << >>, !.calls = << >>,
                 !.k = 0, !.j = 0, !.retry = FALSE,
                 !.chain_log = << >>, !.chain_data = << >>, !.chain_done = << >>,
                 !.pre = IF hist.track THEN Snapshot ELSE NoSnapshot,
                 !.prev_op = IF hist.track THEN hist.op ELSE "none",
                 !.prompted = FALSE, !.confirmed = FALSE]

WorkingKeys == {all_vars[i].key : i \in 1..Len(all_vars)}

\* ------------------------------------------------------ staging operators
\* Mutant of PendingCount: the subtitle counts the keys with a pending change.
PendingKeys(stack) == Cardinality({stack[i].key : i \in 1..Len(stack)})

\* _update_subtitle: n = len(self._undo_stack), shown as "n unsaved change(s)"
\* (nothing is shown for 0).
PendingCount(stack) == Len(stack)

\* Mutant of PreviousValue: previous is read from the provider, not from the
\* working copy.
PreviousFromProvider(vars_, key) == DictGet(provider_data, key)

\* _stage_set: previous is the WORKING COPY's value of key (None if absent).
PreviousValue(vars_, key) ==
    LET i == FirstIndex(vars_, key)
    IN  IF i = 0 THEN None ELSE vars_[i].value

\* _stage_set, the working copy: append a new EnvVar, or set the first match.
SetInWorkingCopy(vars_, key, value) ==
    LET i == FirstIndex(vars_, key)
    IN  IF i = 0 THEN Append(vars_, EnvVar(key, value))
        ELSE [vars_ EXCEPT ![i].value = value]

\* Mutant of StageSet: the set is also written through to the provider.
StageSetWritesProvider(key, value) ==
    /\ all_vars' = SetInWorkingCopy(all_vars, key, value)
    /\ undo_stack' = Append(undo_stack,
           Action("SET", key, value, PreviousValue(all_vars, key), None))
    /\ dirty' = TRUE
    /\ sub_title' = PendingCount(undo_stack')
    /\ provider_data' = DictSet(provider_data, key, value)
    /\ hist' = HistOp("stage_set")
    /\ UNCHANGED << nav_vars, commit_vars >>

StageSet(key, value) ==
    LET previous == PreviousValue(all_vars, key)
    IN  /\ all_vars' = SetInWorkingCopy(all_vars, key, value)
        /\ undo_stack' = Append(undo_stack, Action("SET", key, value, previous, None))
        /\ dirty' = TRUE
        /\ sub_title' = PendingCount(undo_stack')
        /\ hist' = HistOp("stage_set")
        /\ UNCHANGED << provider_data, nav_vars, commit_vars >>

\* Mutant of CollapseOnDelete: a staged edit is not collapsed, the Delete of the
\* current value is pushed behind it.
CollapseAddsOnly(stack, key, current_value) ==
    LET p == LastIndex(stack, key)
        prior == stack[p]
    IN  IF p # 0 /\ prior.kind = "SET" /\ prior.previous_value = None
        THEN ListRemove(stack, prior)
        ELSE IF p # 0 /\ prior.kind = "RENAME" /\ prior.old_key # None
        THEN Append(ListRemove(stack, prior),
                    Action("DELETE", prior.old_key, prior.value, None, None))
        ELSE Append(stack, Action("DELETE", key, current_value, None, None))

\* _stage_delete, the undo stack after the collapse against `prior`.
CollapseOnDelete(stack, key, current_value) ==
    LET p == LastIndex(stack, key)
        prior == stack[p]
    IN  IF p # 0 /\ prior.kind = "SET" /\ prior.previous_value = None
        THEN ListRemove(stack, prior)
        ELSE IF p # 0 /\ prior.kind = "SET" /\ prior.previous_value # None
        THEN Append(ListRemove(stack, prior),
                    Action("DELETE", key, prior.previous_value, None, None))
        ELSE IF p # 0 /\ prior.kind = "RENAME" /\ prior.old_key # None
        THEN Append(ListRemove(stack, prior),
                    Action("DELETE", prior.old_key, prior.value, None, None))
        ELSE Append(stack, Action("DELETE", key, current_value, None, None))

\* Mutant of DirtyOf: the flag is cleared whatever the stack holds.
DirtyCleared(stack) == FALSE

\* _stage_delete: dirty = bool(self._undo_stack)
DirtyOf(stack) == stack # << >>

\* Mutant of StageDelete: no early return, a Delete is staged for a key the
\* working copy does not hold.
StageDeleteWithoutReturn(key) ==
    LET e == FirstIndex(all_vars, key)
        stack == CollapseOnDelete(undo_stack, key,
                                  IF e = 0 THEN None ELSE all_vars[e].value)
    IN  /\ all_vars' = WithoutKey(all_vars, key)
        /\ undo_stack' = stack
        /\ dirty' = DirtyOf(stack)
        /\ sub_title' = PendingCount(stack)
        /\ hist' = HistOp("stage_delete")
        /\ UNCHANGED << provider_data, ctx_vars, commit_vars >>

StageDelete(key) ==
    LET e == FirstIndex(all_vars, key)
    IN  IF e = 0
        THEN /\ hist' = HistOp("stage_delete")
             /\ UNCHANGED << all_vars, undo_stack, dirty, sub_title, provider_data,
                             ctx_vars, commit_vars >>
        ELSE LET stack == CollapseOnDelete(undo_stack, key, all_vars[e].value)
             IN  /\ all_vars' = WithoutKey(all_vars, key)
                 /\ undo_stack' = stack
                 /\ dirty' = DirtyOf(stack)
                 /\ sub_title' = PendingCount(stack)
                 /\ hist' = HistOp("stage_delete")
                 /\ UNCHANGED << provider_data, ctx_vars, commit_vars >>

StageRename(old_key, new_key) ==
    LET i == FirstIndex(all_vars, old_key)
    IN  IF i = 0
        THEN /\ hist' = HistOp("stage_rename")
             /\ UNCHANGED << all_vars, undo_stack, dirty, sub_title, provider_data,
                             ctx_vars, commit_vars >>
        ELSE /\ all_vars' = [all_vars EXCEPT ![i].key = new_key]
             /\ undo_stack' = Append(undo_stack,
                    Action("RENAME", new_key, all_vars[i].value, None, old_key))
             /\ dirty' = TRUE
             /\ sub_title' = PendingCount(undo_stack')
             /\ hist' = HistOp("stage_rename")
             /\ UNCHANGED << provider_data, ctx_vars, commit_vars >>

\* Mutant of Reverse: undoing an add leaves the added entry in the working copy.
ReverseSkipsAdd(vars_, action) ==
    IF action.kind = "SET"
    THEN LET i == FirstIndex(vars_, action.key)
         IN  IF i = 0 \/ action.previous_value = None THEN vars_
             ELSE [vars_ EXCEPT ![i].value = action.previous_value]
    ELSE IF action.kind = "DELETE"
    THEN Append(vars_, EnvVar(action.key, action.value))
    ELSE IF action.kind = "RENAME" /\ action.old_key # None
    THEN LET i == FirstIndex(vars_, action.key)
         IN  IF i = 0 THEN vars_ ELSE [vars_ EXCEPT ![i].key = action.old_key]
    ELSE vars_

\* Mutant of Reverse: undoing a rename leaves the new key in the working copy.
ReverseKeepsRename(vars_, action) ==
    IF action.kind = "SET"
    THEN IF action.previous_value = None
         THEN WithoutKey(vars_, action.key)
         ELSE LET i == FirstIndex(vars_, action.key)
              IN  IF i = 0 THEN vars_
                  ELSE [vars_ EXCEPT ![i].value = action.previous_value]
    ELSE IF action.kind = "DELETE"
    THEN Append(vars_, EnvVar(action.key, action.value))
    ELSE vars_

\* action_undo, the working copy after reversing `action`.
Reverse(vars_, action) ==
    IF action.kind = "SET"
    THEN IF action.previous_value = None
         THEN WithoutKey(vars_, action.key)
         ELSE LET i == FirstIndex(vars_, action.key)
              IN  IF i = 0 THEN vars_
                  ELSE [vars_ EXCEPT ![i].value = action.previous_value]
    ELSE IF action.kind = "DELETE"
    THEN Append(vars_, EnvVar(action.key, action.value))
    ELSE IF action.kind = "RENAME" /\ action.old_key # None
    THEN LET i == FirstIndex(vars_, action.key)
         IN  IF i = 0 THEN vars_ ELSE [vars_ EXCEPT ![i].key = action.old_key]
    ELSE vars_

\* ------------------------------------------------------------ user actions
\* The placeholder list_vars() of the hybrid provider shows for a value that
\* is not fetched yet, and that the loading guards of the app compare with.
Loading == "Loading..."

\* isinstance(self._provider, HybridAzureProvider)
IsHybrid == remote.kind = "hybrid"

\* _is_staged_only: the most recent staged action for key is a Set with no
\* previous value.
IsStagedOnly(stack, key) ==
    LET p == LastIndex(stack, key)
    IN  p # 0 /\ stack[p].kind = "SET" /\ stack[p].previous_value = None

\* action_edit_var / action_delete_var, "Value is still loading, please wait":
\* the provider is hybrid, the key is not staged-only and provider.get(key)
\* is the placeholder.
LoadingGuard(key) ==
    IsHybrid /\ ~IsStagedOnly(undo_stack, key) /\ DictGet(provider_data, key) = Loading

\* action_add_var, "Values are still loading, please wait".
AddBlocked == IsHybrid /\ ~remote.loaded

\* action_rename_var, the same message: not for a staged-only row.
RenameBlocked(key) == IsHybrid /\ ~remote.loaded /\ ~IsStagedOnly(undo_stack, key)

\* action_add_var + AddScreen._try_save: a key that is not in the working copy.
AddVar(max_log) ==
    /\ pc = "idle"
    /\ ~session.open
    /\ Len(undo_stack) < max_log
    /\ Len(all_vars) < MaxVars
    /\ ~AddBlocked
    /\ \E key \in Keys \ WorkingKeys, value \in Values : StageSet(key, value)
    /\ UNCHANGED session

\* action_edit_var + EditScreen: the selected row, when the table does not
\* show it as a multiline secret, and a value that differs.
EditVar(max_log) ==
    /\ pc = "idle"
    /\ ~session.open
    /\ Len(undo_stack) < max_log
    /\ \E key \in WorkingKeys, value \in Values :
          /\ ~LoadingGuard(key)
          /\ ~all_vars[FirstIndex(all_vars, key)].is_multiline
          /\ value # PreviousValue(all_vars, key)
          /\ StageSet(key, value)
    /\ UNCHANGED session

\* action_delete_var (dd): the selected row.
DeleteVar(max_log) ==
    /\ pc = "idle"
    /\ ~session.open
    /\ \E key \in WorkingKeys :
          /\ ~LoadingGuard(key)
          /\ Len(CollapseOnDelete(undo_stack, key, None)) <= max_log
          /\ StageDelete(key)

\* action_rename_var + RenameScreen: the selected row, to a key not in the table.
RenameVar(max_log) ==
    /\ pc = "idle"
    /\ ~session.open
    /\ Len(undo_stack) < max_log
    /\ \E key \in WorkingKeys, new_key \in Keys \ WorkingKeys :
          /\ ~RenameBlocked(key)
          /\ StageRename(key, new_key)

\* action_undo
Undo ==
    /\ pc = "idle"
    /\ ~session.open
    /\ undo_stack # << >>
    /\ Len(all_vars) < MaxVars \/ undo_stack[Len(undo_stack)].kind # "DELETE"
    /\ LET action == undo_stack[Len(undo_stack)]
           stack == SubSeq(undo_stack, 1, Len(undo_stack) - 1)
       IN  /\ undo_stack' = stack
           /\ all_vars' = Reverse(all_vars, action)
           /\ dirty' = DirtyOf(stack)
           /\ sub_title' = PendingCount(stack)
    /\ hist' = HistOp("undo")
    /\ UNCHANGED << provider_data, ctx_vars, commit_vars >>

\* _stage_delete(key) called with a key the working copy does not hold.
StageDeleteAbsent ==
    /\ pc = "idle"
    /\ ~session.open
    /\ \E key \in Keys \ WorkingKeys : StageDelete(key)

\* _stage_rename(old_key, new_key) called with an old_key the working copy does
\* not hold.
StageRenameAbsent ==
    /\ pc = "idle"
    /\ ~session.open
    /\ \E old_key \in Keys \ WorkingKeys, new_key \in Keys : StageRename(old_key, new_key)

\* action_undo with nothing staged: it notifies "Nothing to undo" and returns.
UndoNothing ==
    /\ pc = "idle"
    /\ ~session.open
    /\ undo_stack = << >>
    /\ hist' = HistOp("undo")
    /\ UNCHANGED << all_vars, undo_stack, dirty, sub_title, provider_data,
                    ctx_vars, commit_vars >>

\* ---------------------------------------------------------- drill-in session
\* The keys and values the user types inside a drill-in session.
InnerKeys == {"X", "Y"}

InnerValues == Values

\* action_edit_var on a row the table shows as a multiline secret:
\* MultilineViewScreen(key, blob) is pushed with the working copy's value of
\* the key; __init__ parses the blob and starts clean.
DrillIn(max_log) ==
    /\ pc = "idle"
    /\ ~session.open
    /\ Len(undo_stack) < max_log
    /\ \E key \in WorkingKeys :
          LET var == all_vars[FirstIndex(all_vars, key)]
          IN  /\ ~LoadingGuard(key)
              /\ var.is_multiline
              /\ session' = [open |-> TRUE, key |-> key, blob |-> var.value,
                             vars |-> parse_dotenv_blob(var.value), dirty |-> FALSE]
    /\ hist' = HistOp("drill_in")
    /\ UNCHANGED << all_vars, undo_stack, dirty, sub_title, provider_data, nav_vars,
                    commit_vars >>

\* What every action of the session leaves alone: the whole outer application.
outer_vars == << all_vars, undo_stack, dirty, sub_title, provider_data, nav_vars,
                 commit_vars >>

\* MultilineViewScreen.action_add_var + AddScreen(existing, allow_multiline=False)
InnerAdd ==
    /\ pc = "idle"
    /\ session.open
    /\ \E key \in InnerKeys \ {session.vars[i].key : i \in 1..Len(session.vars)},
          value \in InnerValues :
          session' = [session EXCEPT !.vars = Append(@, EnvVar(key, value)),
                                     !.dirty = TRUE]
    /\ hist' = HistOp("inner_add")
    /\ UNCHANGED outer_vars

\* MultilineViewScreen.action_edit_var + EditScreen: any submitted value, the
\* current one included, is written and marks the session dirty.
InnerEdit ==
    /\ pc = "idle"
    /\ session.open
    /\ \E i \in 1..Len(session.vars), value \in InnerValues :
          /\ i = FirstIndex(session.vars, session.vars[i].key)
          /\ session' = [session EXCEPT !.vars[i].value = value, !.dirty = TRUE]
    /\ hist' = HistOp("inner_edit")
    /\ UNCHANGED outer_vars

\* MultilineViewScreen.action_rename_var + RenameScreen(current, existing)
InnerRename ==
    /\ pc = "idle"
    /\ session.open
    /\ \E i \in 1..Len(session.vars),
          new_key \in InnerKeys \ {session.vars[n].key : n \in 1..Len(session.vars)} :
          /\ i = FirstIndex(session.vars, session.vars[i].key)
          /\ session' = [session EXCEPT !.vars[i].key = new_key, !.dirty = TRUE]
    /\ hist' = HistOp("inner_rename")
    /\ UNCHANGED outer_vars

\* MultilineViewScreen.action_delete_var (dd): the selected row.
InnerDelete ==
    /\ pc = "idle"
    /\ session.open
    /\ \E i \in 1..Len(session.vars) :
          session' = [session EXCEPT !.vars = WithoutKey(@, session.vars[i].key),
                                     !.dirty = TRUE]
    /\ hist' = HistOp("inner_delete")
    /\ UNCHANGED outer_vars

\* Mutant of SessionCancelCloses: the session closes whatever the user answers.
SessionCancelAlways(dirty_, answer) == TRUE

\* MultilineViewScreen.action_cancel: a clean session is dismissed at once, a
\* dirty one when the user confirms "Discard unsaved changes?".
SessionCancelCloses(dirty_, answer) == ~dirty_ \/ answer

\* action_cancel with the answer the user gives if prompted; dismiss(None)
\* makes on_blob_save stage nothing.
SessionCancel ==
    /\ pc = "idle"
    /\ session.open
    /\ \E answer \in BOOLEAN :
          IF SessionCancelCloses(session.dirty, answer)
          THEN /\ session' = NoSession
               /\ hist' = [HistOp("session_cancel") EXCEPT
                             !.prompted = session.dirty,
                             !.confirmed = session.dirty /\ answer]
          ELSE /\ session' = session
               /\ hist' = [HistOp("cancel_declined") EXCEPT !.prompted = TRUE]
    /\ UNCHANGED outer_vars

\* Mutant of SavedBlob: the blob the session was opened with is handed back.
SavedBlobIsOriginal(session_) == session_.blob

\* MultilineViewScreen.action_save on a dirty session:
\* dismiss(encode_dotenv_blob(self._vars))
SavedBlob(session_) == encode_dotenv_blob(session_.vars)

\* action_save and on_blob_save: a clean session is dismissed with None; a
\* dirty one with its encoded list, which is staged on the outer engine when it
\* differs from the blob the session was opened with.
SessionSave ==
    /\ pc = "idle"
    /\ session.open
    /\ session' = NoSession
    /\ IF session.dirty /\ SavedBlob(session) # session.blob
       THEN StageSet(session.key, SavedBlob(session))
       ELSE /\ hist' = HistOp("session_save")
            /\ UNCHANGED outer_vars

\* ------------------------------------------------------------------ commit
\* Mutant of ProviderCalls: a rename creates the new key before it deletes the
\* old one.
ProviderCallsCreateFirst(action) ==
    IF action.kind = "SET"
    THEN IF action.previous_value = None
         THEN << Call("create", action.key, action.value) >>
         ELSE << Call("update", action.key, action.value) >>
    ELSE IF action.kind = "DELETE"
    THEN << Call("delete", action.key, None) >>
    ELSE << Call("create", action.key, action.value),
            Call("delete", action.old_key, None) >>

\* _commit_staged, the try block: the provider calls of one action, in order.
ProviderCalls(action) ==
    IF action.kind = "SET"
    THEN IF action.previous_value = None
         THEN << Call("create", action.key, action.value) >>
         ELSE << Call("update", action.key, action.value) >>
    ELSE IF action.kind = "DELETE"
    THEN << Call("delete", action.key, None) >>
    ELSE IF action.kind = "RENAME" /\ action.old_key # None
    THEN << Call("delete", action.old_key, None),
            Call("create", action.key, action.value) >>
    ELSE << >>

\* Mutant of RemoveCommitted: the stack is left as it was.
RemoveNothing(stack, done) == stack

\* Mutant of RemoveCommitted: the failing action is dropped with the committed.
RemoveCommittedAndFailed(stack, done) == SubSeq(stack, Len(done) + 2, Len(stack))

\* _commit_staged, the except block: for done in committed: stack.remove(done)
RECURSIVE RemoveCommitted(_, _)
RemoveCommitted(stack, done) ==
    IF done = << >> THEN stack
    ELSE RemoveCommitted(ListRemove(stack, Head(done)), Tail(done))

\* Mutant of DirtyAfterCommit: dirty is not reset.
DirtyLeftSet == TRUE

\* _commit_staged after the loop: self.dirty = False
DirtyAfterCommit == FALSE

\* action_save_changes, confirmed on SaveConfirmScreen: _commit_staged starts.
SaveChanges(max_saves) ==
    /\ pc = "idle"
    /\ ~session.open
    /\ undo_stack # << >>
    /\ hist.op = "commit_failed" \/ hist.saves < max_saves
    /\ pc' = "commit"
    /\ commit_i' = 1
    /\ commit_j' = 0
    /\ committed' = << >>
    /\ hist' = [hist EXCEPT
                  !.op = "commit", !.fresh = FALSE,
                  !.prompted = FALSE, !.confirmed = FALSE,
                  !.saves = IF hist.op = "commit_failed" THEN @ ELSE @ + 1,
                  !.log0 = undo_stack, !.data0 = provider_data,
                  !.calls = << >>, !.k = 0, !.j = 0,
                  !.retry = (hist.op = "commit_failed"),
                  !.chain_log = IF hist.op = "commit_failed" THEN @ ELSE undo_stack,
                  !.chain_data = IF hist.op = "commit_failed" THEN @ ELSE provider_data,
                  !.chain_done = IF hist.op = "commit_failed" THEN @ ELSE << >>]
    /\ UNCHANGED << all_vars, undo_stack, dirty, sub_title, provider_data, ctx_vars >>

\* One provider call of the action at commit_i returns normally: the transport
\* call succeeded and the provider updated its cache.
CommitCallReturns ==
    /\ pc = "commit"
    /\ commit_i <= Len(undo_stack)
    /\ LET action == undo_stack[commit_i]
           cs == ProviderCalls(action)
           call == cs[commit_j + 1]
           last == (commit_j + 1 = Len(cs))
       IN  /\ provider_data' = ProviderApply(provider_data, call)
           /\ remote' = IF IsHybrid
                         THEN [remote EXCEPT
                                 !.vault = ProviderApply(@, call),
                                 !.names = NamesAfterCall(@, call, TRUE)]
                         ELSE remote
           /\ committed' = IF last THEN Append(committed, action) ELSE committed
           /\ commit_i' = IF last THEN commit_i + 1 ELSE commit_i
           /\ commit_j' = IF last THEN 0 ELSE commit_j + 1
           /\ hist' = [hist EXCEPT
                         !.calls = Append(@, call),
                         !.chain_done = IF last THEN Append(@, action) ELSE @]
    /\ UNCHANGED << all_vars, undo_stack, dirty, sub_title, provider_injected,
                    current_project, current_env, nav, session, codec, worker, pc >>

\* One provider call raises AzureClientError (the transport call failed, the
\* cache is untouched): the committed actions leave the stack, commit returns.
\* MockProvider never raises.
CommitCallRaises ==
    /\ pc = "commit"
    /\ commit_i <= Len(undo_stack)
    /\ provider_injected \/ IsHybrid
    /\ undo_stack' = RemoveCommitted(undo_stack, committed)
    /\ pc' = "idle"
    /\ commit_i' = 0
    /\ commit_j' = 0
    /\ committed' = << >>
    /\ hist' = [hist EXCEPT
                  !.op = "commit_failed",
                  !.calls = Append(@, ProviderCalls(undo_stack[commit_i])[commit_j + 1]),
                  !.k = commit_i, !.j = commit_j]
    /\ UNCHANGED << all_vars, dirty, sub_title, provider_data, ctx_vars >>

\* Mutant of CommitFinish: the working copy is reloaded from the provider
\* when the commit has run to its end.
CommitFinishReloads ==
    /\ pc = "commit"
    /\ commit_i > Len(undo_stack)
    /\ all_vars' = ListVars(provider_data)
    /\ undo_stack' = << >>
    /\ dirty' = DirtyAfterCommit
    /\ sub_title' = PendingCount(<< >>)
    /\ pc' = "idle"
    /\ commit_i' = 0
    /\ commit_j' = 0
    /\ committed' = << >>
    /\ hist' = [hist EXCEPT !.op = "commit_ok"]
    /\ UNCHANGED << provider_data, ctx_vars >>

\* The loop of _commit_staged ran out: clear the stack, dirty = False.
CommitFinish ==
    /\ pc = "commit"
    /\ commit_i > Len(undo_stack)
    /\ undo_stack' = << >>
    /\ dirty' = DirtyAfterCommit
    /\ sub_title' = PendingCount(<< >>)
    /\ pc' = "idle"
    /\ commit_i' = 0
    /\ commit_j' = 0
    /\ committed' = << >>
    /\ hist' = [hist EXCEPT !.op = "commit_ok"]
    /\ UNCHANGED << all_vars, provider_data, ctx_vars >>

\* -------------------------------------------------------------- navigation
\* watch_current_env with a MockProvider: the provider is built anew for
\* (current_project, env) and the working copy is its list_vars(); a pair that
\* MOCK_DATA does not hold leaves the provider and empties the working copy.
ReloadedData(project, env) ==
    IF << project, env >> \in Contexts THEN MockData(project, env) ELSE provider_data

ReloadedVars(project, env) ==
    IF << project, env >> \in Contexts THEN ListVars(MockData(project, env)) ELSE << >>

\* A switch that clears the undo stack and leaves dirty as it was.
DirtyKeptOnSwitch == dirty

\* watch_current_env: self._undo_stack.clear(); self.dirty = False
DirtyAfterSwitch == FALSE

\* Mutant of ConfirmNavigateProceeds: the navigation goes ahead whatever the
\* user answers.
NavigateUnguarded(dirty_, answer) == TRUE

\* _confirm_navigate: the navigation goes ahead when nothing is staged, or when
\* the user confirms the ConfirmScreen that is pushed otherwise.
ConfirmNavigateProceeds(dirty_, answer) == ~dirty_ \/ answer

\* _confirm_navigate(project, env) from the environment key, a tab or the
\* picker, with the answer the user gives if prompted. When it goes ahead,
\* _navigate_to sets current_project and sleeps; when the user declines, only
\* the focus goes back to the table.
Navigate ==
    /\ pc = "idle"
    /\ ~session.open
    /\ Len(nav) < MaxPending
    /\ \E target \in Contexts, answer \in BOOLEAN :
          IF ConfirmNavigateProceeds(dirty, answer)
          THEN /\ current_project' = target[1]
               /\ nav' = Append(nav, target[2])
               /\ sub_title' = IF target[1] # current_project
                                THEN PendingCount(undo_stack) ELSE sub_title
               /\ hist' = [HistOp("navigate") EXCEPT
                             !.prompted = dirty, !.confirmed = dirty /\ answer]
               /\ UNCHANGED << all_vars, undo_stack, dirty, provider_data,
                               provider_injected, current_env, session,
                               codec, remote, worker, commit_vars >>
          ELSE UNCHANGED vars

\* _navigate_to wakes and sets current_env; watch_current_env runs when the
\* value changes: an injected provider is kept with the working copy as it is,
\* a MockProvider is rebuilt and listed; the undo stack is cleared either way.
NavigateWakes ==
    /\ pc = "idle"
    /\ nav # << >>
    /\ LET env == Head(nav)
       IN  /\ current_env' = env
           /\ nav' = Tail(nav)
           /\ IF env = current_env
              THEN /\ hist' = HistOp("switch")
                   /\ UNCHANGED << all_vars, undo_stack, dirty, sub_title,
                                   provider_data >>
              ELSE /\ provider_data' = IF provider_injected THEN provider_data
                                       ELSE ReloadedData(current_project, env)
                   /\ all_vars' = IF provider_injected THEN all_vars
                                  ELSE ReloadedVars(current_project, env)
                   /\ undo_stack' = << >>
                   /\ dirty' = DirtyAfterSwitch
                   /\ sub_title' = PendingCount(<< >>)
                   /\ hist' = [HistOp("switch") EXCEPT
                                 !.fresh = ~provider_injected,
                                 !.loaded = IF provider_injected THEN @
                                            ELSE ReloadedData(current_project, env)]
    /\ UNCHANGED << provider_injected, current_project, session, codec, remote,
                    worker, commit_vars >>

\* ------------------------------------------------- calls of domain.secrets
\* The pieces a string argument is built from: the marker is the only place
\* where a backslash occurs.
BlobTokens == {"X", "a", "=", " ", "#", Marker}

\* The keys and values of the EnvVar a list argument is built from.
CodecKeys == {"X", "Y", " X", ""}

CodecValues == {"a", "", "a=b", "a ", " a"}

\* The application state, which no function of domain.secrets reads or writes.
app_vars == << all_vars, undo_stack, dirty, sub_title, provider_data, provider_injected,
               current_project, current_env, nav, session, commit_vars, remote,
               worker, hist >>

\* The string argument grows by one piece.
CodecType ==
    /\ codec.op \in {"none", "type"}
    /\ codec.list = << >>
    /\ \E t \in BlobTokens :
          /\ Len(codec.text) + Len(t) <= MaxBlobLen
          /\ codec' = [codec EXCEPT !.op = "type", !.text = @ \o t]
    /\ UNCHANGED app_vars

\* The list argument grows by one EnvVar.
CodecAppend ==
    /\ codec.op \in {"none", "append"}
    /\ codec.text = ""
    /\ Len(codec.list) < MaxCodecVars
    /\ \E key \in CodecKeys, value \in CodecValues :
          codec' = [codec EXCEPT !.op = "append", !.list = Append(@, EnvVar(key, value))]
    /\ UNCHANGED app_vars

\* is_multiline(text)
CallIsMultiline ==
    /\ codec.op \in {"none", "type"}
    /\ codec' = [codec EXCEPT !.op = "is_multiline", !.arg_text = codec.text,
                              !.flag = is_multiline(codec.text)]
    /\ UNCHANGED app_vars

\* parse_dotenv_blob(text), of a string built as an argument or returned by
\* encode_dotenv_blob.
CallParse ==
    /\ codec.op \in {"none", "type", "encode"}
    /\ codec' = [codec EXCEPT
                   !.op = IF codec.op = "encode" THEN "encode_parse" ELSE "parse",
                   !.arg_text = codec.text,
                   !.list = parse_dotenv_blob(codec.text)]
    /\ UNCHANGED app_vars

\* encode_dotenv_blob(list), of a list built as an argument or returned by
\* parse_dotenv_blob.
CallEncode ==
    /\ codec.op \in {"none", "append", "parse"}
    /\ codec' = [codec EXCEPT
                   !.op = IF codec.op = "parse" THEN "parse_encode" ELSE "encode",
                   !.arg_list = codec.list,
                   !.text = encode_dotenv_blob(codec.list)]
    /\ UNCHANGED app_vars

\* -------------------------------------------------------- remote providers
\* The Key Vault a remote provider is constructed on.
InitialVaults ==
    { << >>,
      << [key |-> "K1", value |-> "a"] >>,
      << [key |-> "K1", value |-> "a"], [key |-> "K2", value |-> "b"] >> }

\* The names of a dict, in dict order.
NamesOf(data) == [i \in 1..Len(data) |-> data[i].key]

\* HybridAzureProvider.__init__: _data = {name: None for name in self._names}
Unfetched(vault) == [i \in 1..Len(vault) |-> [key |-> vault[i].key, value |-> None]]

\* HybridAzureProvider.list_vars
HybridListVars(data) ==
    ListVars([i \in 1..Len(data) |->
                [key |-> data[i].key,
                 value |-> IF data[i].value = None THEN Loading ELSE data[i].value]])

\* Everything but the provider called directly.
idle_vars == << all_vars, undo_stack, dirty, sub_title, provider_injected, current_project,
                current_env, nav, session, commit_vars, codec, worker, hist >>

\* Mutant of CacheAfterCall: the cache is written before the transport call.
CacheWrittenFirst(data, call, ok) == ProviderApply(data, call)

\* create / update / delete of both providers: self._client.<call>(...) first,
\* which raises when the transport call fails, then the write to self._data.
CacheAfterCall(data, call, ok) == IF ok THEN ProviderApply(data, call) ELSE data

\* provider.create(key, value) / update(key, value) / delete(key) with the
\* outcome ok of the transport call.
ProviderWrite ==
    /\ remote.kind # "none"
    /\ remote.calls < MaxCalls
    /\ \E op \in {"create", "update", "delete"}, key \in Keys,
          value \in Values, ok \in BOOLEAN :
          LET call == Call(op, key, IF op = "delete" THEN None ELSE value)
          IN  /\ op = "delete" => value = "a"
              /\ provider_data' = CacheAfterCall(provider_data, call, ok)
              /\ remote' = [remote EXCEPT
                    !.vault = IF ok THEN ProviderApply(@, call) ELSE @,
                    !.names = IF remote.kind = "hybrid"
                              THEN NamesAfterCall(@, call, ok) ELSE @,
                    !.calls = @ + 1,
                    !.result = Outcome(op, key, ~ok, None)]
    /\ UNCHANGED idle_vars

\* provider.get(key): self._data.get(key) on both providers.
ProviderGet ==
    /\ remote.kind # "none"
    /\ remote.calls < MaxCalls
    /\ \E key \in Keys :
          remote' = [remote EXCEPT
                       !.calls = @ + 1,
                       !.result = Outcome("get", key, FALSE, DictGet(provider_data, key))]
    /\ UNCHANGED << provider_data, idle_vars >>

\* HybridAzureProvider.fetch_all_values, the cache after a fetch that worked:
\* every name without a value gets the vault's value.
FetchedData(data, vault) ==
    [i \in 1..Len(data) |->
        IF data[i].value = None
        THEN [key |-> data[i].key, value |-> DictGet(vault, data[i].key)]
        ELSE data[i]]

\* HybridAzureProvider.fetch_all_values with the outcome ok of the batch: it
\* returns at once when no name lacks a value; the batch raises when a fetch
\* fails, as it does for a name the vault does not hold.
HybridFetchAll ==
    /\ remote.kind = "hybrid"
    /\ remote.calls < MaxCalls
    /\ \E ok \in BOOLEAN :
          LET missing == {i \in 1..Len(provider_data) : provider_data[i].value = None}
              works == ok /\ \A i \in missing :
                                DictGet(remote.vault, provider_data[i].key) # None
              data == FetchedData(provider_data, remote.vault)
          IN  IF missing = {}
              THEN /\ remote' = [remote EXCEPT
                         !.calls = @ + 1,
                         !.result = Outcome("fetch_all_values", None, FALSE, None)]
                   /\ UNCHANGED provider_data
              ELSE IF works
              THEN /\ provider_data' = data
                   /\ remote' = [remote EXCEPT
                         !.loaded = \A i \in 1..Len(data) : data[i].value # None,
                         !.calls = @ + 1,
                         !.result = Outcome("fetch_all_values", None, FALSE, None)]
              ELSE /\ remote' = [remote EXCEPT
                         !.calls = @ + 1,
                         !.result = Outcome("fetch_all_values", None, TRUE, None)]
                   /\ UNCHANGED provider_data
    /\ UNCHANGED idle_vars

\* ------------------------------------------------- the background fetch
\* What the thread of _fetch_values_background leaves alone.
owner_vars == << all_vars, undo_stack, dirty, sub_title, provider_injected,
                 current_project, current_env, nav, session, commit_vars, codec, hist >>

\* names_without_values: the names of the cache that have no value, in dict order.
NamesWithoutValues(data) ==
    NamesOf(SelectSeq(data, LAMBDA d : d.value = None))

\* fetch_all_values, its first statements: the list of names to fetch is read
\* from the cache; with none to fetch it returns, and _fetch_values_background
\* posts _update_values to the owner thread.
FetchStart ==
    /\ worker.pc = "start"
    /\ LET wanted == NamesWithoutValues(provider_data)
       IN  worker' = IF wanted = << >>
                     THEN [worker EXCEPT !.pc = "posted"]
                     ELSE [pc |-> "batch", wanted |-> wanted, values |-> << >>]
    /\ UNCHANGED << owner_vars, provider_data, remote >>

\* fetch_values_batch, one _get_value of the pool: the value the vault holds
\* now for one of the names; a failed fetch, as of a name the vault no longer
\* holds, raises AzureClientError and _fetch_values_background notifies
\* "Failed to load values".
FetchValue ==
    /\ worker.pc = "batch"
    /\ \E i \in 1..Len(worker.wanted), ok \in BOOLEAN :
          LET name == worker.wanted[i]
              value == DictGet(remote.vault, name)
              values == Append(worker.values, [key |-> name, value |-> value])
          IN  /\ DictGet(worker.values, name) = None
              /\ worker' = IF ok /\ value # None
                            THEN [worker EXCEPT
                                    !.values = values,
                                    !.pc = IF Len(values) = Len(worker.wanted)
                                           THEN "store" ELSE "batch"]
                            ELSE [worker EXCEPT !.pc = "failed"]
    /\ UNCHANGED << owner_vars, provider_data, remote >>

\* fetch_all_values: for name, value in values.items(): self._data[name] = value,
\* one assignment.
FetchStore ==
    /\ worker.pc = "store"
    /\ provider_data' = DictSet(provider_data, Head(worker.values).key,
                                Head(worker.values).value)
    /\ worker' = [worker EXCEPT
                    !.values = Tail(@),
                    !.pc = IF Tail(worker.values) = << >> THEN "flag" ELSE "store"]
    /\ UNCHANGED << owner_vars, remote >>

\* fetch_all_values: self._values_loaded = all(v is not None for v in values())
ValuesLoaded(data) == \A i \in 1..Len(data) : data[i].value # None

\* fetch_all_values sets the flag and returns; _fetch_values_background posts
\* _update_values to the owner thread.
FetchFlag ==
    /\ worker.pc = "flag"
    /\ remote' = [remote EXCEPT !.loaded = ValuesLoaded(provider_data)]
    /\ worker' = [worker EXCEPT !.pc = "posted"]
    /\ UNCHANGED << owner_vars, provider_data >>

\* _update_values: self._all_vars = self._provider.list_vars()
RefreshedVars(data) == HybridListVars(data)

\* _update_values, run by the owner thread between two of its handlers.
UpdateValues ==
    /\ worker.pc = "posted"
    /\ pc = "idle"
    /\ all_vars' = RefreshedVars(provider_data)
    /\ worker' = [worker EXCEPT !.pc = "done"]
    /\ hist' = HistOp("update_values")
    /\ UNCHANGED << undo_stack, dirty, sub_title, provider_data, provider_injected,
                    current_project, current_env, nav, session, commit_vars, codec,
                    remote >>

\* ------------------------------------------------------------ specification
\* The state after on_mount and _load_initial: the working copy is list_vars()
\* of the injected provider or of MockProvider(DEFAULT_PROJECT, DEFAULT_ENV).
Init ==
    /\ provider_injected \in BOOLEAN
    /\ provider_data = InitialData
    /\ all_vars = ListVars(InitialData)
    /\ undo_stack = << >>
    /\ dirty = FALSE
    /\ sub_title = PendingCount(undo_stack)
    /\ current_project = DEFAULT_PROJECT
    /\ current_env = DEFAULT_ENV
    /\ nav = << >>
    /\ session = NoSession
    /\ pc = "idle"
    /\ commit_i = 0
    /\ commit_j = 0
    /\ committed = << >>
    /\ codec = NoCall
    /\ remote = NoRemote
    /\ worker = NoWorker
    /\ hist = HistInit(InitialData)

\* The staging engine on one project and environment.
Next ==
    \/ AddVar(MaxLog)
    \/ EditVar(MaxLog)
    \/ DeleteVar(MaxLog)
    \/ RenameVar(MaxLog)
    \/ Undo
    \/ SaveChanges(MaxSaves)
    \/ CommitCallReturns
    \/ CommitCallRaises
    \/ CommitFinish

Spec == Init /\ [][Next]_vars

\* The staging operators and undo alone, on an injected provider that starts
\* empty or with one secret, with the state before each operation recorded.
StageInitialData == {<< >>, InitialData}

InitStage ==
    /\ provider_injected = TRUE
    /\ provider_data \in StageInitialData
    /\ all_vars = ListVars(provider_data)
    /\ undo_stack = << >>
    /\ dirty = FALSE
    /\ sub_title = PendingCount(undo_stack)
    /\ current_project = DEFAULT_PROJECT
    /\ current_env = DEFAULT_ENV
    /\ nav = << >>
    /\ session = NoSession
    /\ pc = "idle"
    /\ commit_i = 0
    /\ commit_j = 0
    /\ committed = << >>
    /\ codec = NoCall
    /\ remote = NoRemote
    /\ worker = NoWorker
    /\ hist = [HistInit(provider_data) EXCEPT !.track = TRUE]

NextStage ==
    \/ AddVar(StageMaxLog)
    \/ EditVar(StageMaxLog)
    \/ DeleteVar(StageMaxLog)
    \/ RenameVar(StageMaxLog)
    \/ Undo

SpecStage == InitStage /\ [][NextStage]_vars

\* The staging operators, undo and the drill-in session on an injected
\* provider that holds one .env blob secret.
DrillInitialData ==
    { << [key |-> "K1", value |-> "X=a\\nY=b"] >>,
      << [key |-> "K1", value |-> "#c\\nX=a"] >> }

InitDrill ==
    /\ provider_injected = TRUE
    /\ provider_data \in DrillInitialData
    /\ all_vars = ListVars(provider_data)
    /\ undo_stack = << >>
    /\ dirty = FALSE
    /\ sub_title = PendingCount(undo_stack)
    /\ current_project = DEFAULT_PROJECT
    /\ current_env = DEFAULT_ENV
    /\ nav = << >>
    /\ session = NoSession
    /\ pc = "idle"
    /\ commit_i = 0
    /\ commit_j = 0
    /\ committed = << >>
    /\ codec = NoCall
    /\ remote = NoRemote
    /\ worker = NoWorker
    /\ hist = [HistInit(provider_data) EXCEPT !.track = TRUE]

NextDrill ==
    \/ AddVar(DrillMaxLog)
    \/ EditVar(DrillMaxLog)
    \/ DeleteVar(DrillMaxLog)
    \/ RenameVar(DrillMaxLog)
    \/ Undo
    \/ DrillIn(DrillMaxLog)
    \/ InnerAdd
    \/ InnerEdit
    \/ InnerRename
    \/ InnerDelete
    \/ SessionCancel
    \/ SessionSave

SpecDrill == InitDrill /\ [][NextDrill]_vars

\* The staging operators and undo, called also where they have nothing to do.
NextOps ==
    \/ AddVar(StageMaxLog)
    \/ EditVar(StageMaxLog)
    \/ DeleteVar(StageMaxLog)
    \/ RenameVar(StageMaxLog)
    \/ Undo
    \/ StageDeleteAbsent
    \/ StageRenameAbsent
    \/ UndoNothing

SpecOps == InitStage /\ [][NextOps]_vars

\* AzureProvider(env) or HybridAzureProvider(env) constructed on a vault and
\* called directly, the application idle: AzureProvider caches list_secrets(),
\* HybridAzureProvider the names with no value.
InitProvider ==
    /\ \E kind \in {"azure", "hybrid"}, vault \in InitialVaults :
          /\ remote = [NoRemote EXCEPT
                         !.kind = kind, !.vault = vault,
                         !.names = IF kind = "hybrid" THEN NamesOf(vault) ELSE << >>]
          /\ provider_data = IF kind = "hybrid" THEN Unfetched(vault) ELSE vault
    /\ provider_injected = TRUE
    /\ all_vars = << >>
    /\ undo_stack = << >>
    /\ dirty = FALSE
    /\ sub_title = PendingCount(undo_stack)
    /\ current_project = DEFAULT_PROJECT
    /\ current_env = DEFAULT_ENV
    /\ nav = << >>
    /\ session = NoSession
    /\ pc = "idle"
    /\ commit_i = 0
    /\ commit_j = 0
    /\ committed = << >>
    /\ codec = NoCall
    /\ worker = NoWorker
    /\ hist = HistInit(provider_data)

NextProvider ==
    \/ ProviderWrite
    \/ ProviderGet
    \/ HybridFetchAll

SpecProvider == InitProvider /\ [][NextProvider]_vars

\* The application on a HybridAzureProvider that _load_initial built on a
\* vault: the working copy lists the names with the placeholder, and
\* _fetch_values_background has been started.
InitHybrid ==
    /\ \E vault \in InitialVaults :
          /\ remote = [NoRemote EXCEPT
                         !.kind = "hybrid", !.vault = vault, !.names = NamesOf(vault)]
          /\ provider_data = Unfetched(vault)
    /\ provider_injected = FALSE
    /\ all_vars = HybridListVars(provider_data)
    /\ undo_stack = << >>
    /\ dirty = FALSE
    /\ sub_title = PendingCount(undo_stack)
    /\ current_project = DEFAULT_PROJECT
    /\ current_env = DEFAULT_ENV
    /\ nav = << >>
    /\ session = NoSession
    /\ pc = "idle"
    /\ commit_i = 0
    /\ commit_j = 0
    /\ committed = << >>
    /\ codec = NoCall
    /\ worker = [NoWorker EXCEPT !.pc = "start"]
    /\ hist = [HistInit(provider_data) EXCEPT !.track = TRUE]

NextHybrid ==
    \/ AddVar(HybridMaxLog)
    \/ EditVar(HybridMaxLog)
    \/ DeleteVar(HybridMaxLog)
    \/ RenameVar(HybridMaxLog)
    \/ Undo
    \/ SaveChanges(HybridMaxSaves)
    \/ CommitCallReturns
    \/ CommitCallRaises
    \/ CommitFinish
    \/ FetchStart
    \/ FetchValue
    \/ FetchStore
    \/ FetchFlag
    \/ UpdateValues

SpecHybrid == InitHybrid /\ [][NextHybrid]_vars

\* The same, where the thread of _fetch_values_background keeps running, the
\* owner thread runs the callbacks posted to it, and a commit that started
\* runs to its end or to the call that raises.
SpecHybridLive ==
    /\ SpecHybrid
    /\ WF_vars(FetchStart)
    /\ WF_vars(FetchValue)
    /\ WF_vars(FetchStore)
    /\ WF_vars(FetchFlag)
    /\ WF_vars(UpdateValues)
    /\ WF_vars(CommitCallReturns \/ CommitCallRaises)
    /\ WF_vars(CommitFinish)

\* The functions of domain.secrets called on bounded arguments, the
\* application idle on its initial state.
InitCodec ==
    /\ Init
    /\ provider_injected = FALSE

NextCodec ==
    \/ CodecType
    \/ CodecAppend
    \/ CallIsMultiline
    \/ CallParse
    \/ CallEncode

SpecCodec == InitCodec /\ [][NextCodec]_vars

\* The staging engine with navigation between projects and environments.
NextNav ==
    \/ AddVar(NavMaxLog)
    \/ EditVar(NavMaxLog)
    \/ DeleteVar(NavMaxLog)
    \/ RenameVar(NavMaxLog)
    \/ Undo
    \/ SaveChanges(NavMaxSaves)
    \/ CommitCallReturns
    \/ CommitCallRaises
    \/ CommitFinish
    \/ Navigate
    \/ NavigateWakes

SpecNav == Init /\ [][NextNav]_vars

\* ------------------------------------------------- what the properties read
\* The key -> value content of a list of entries (a working copy or a cache).
Pairs(seq) == {<< seq[i].key, seq[i].value >> : i \in 1..Len(seq)}

\* A cache after a sequence of provider calls that all succeeded.
RECURSIVE ReplayCalls(_, _)
ReplayCalls(calls, data) ==
    IF calls = << >> THEN data
    ELSE ReplayCalls(Tail(calls), ProviderApply(data, Head(calls)))

\* The provider calls of a whole log, oldest action first.
RECURSIVE CallsOfLog(_)
CallsOfLog(log) ==
    IF log = << >> THEN << >>
    ELSE ProviderCalls(Head(log)) \o CallsOfLog(Tail(log))

\* A cache after a fully successful commit of a log.
ReplayLog(log, data) == ReplayCalls(CallsOfLog(log), data)

\* The last commit ended on a provider call that raised.
CommitFailed == pc = "idle" /\ hist.op = "commit_failed"

\* The last commit ran to its end.
CommitSucceeded == pc = "idle" /\ hist.op = "commit_ok"

\* ------------------------------------------------------------------ claims
\* C1: in every state reached by staging operations and undo from a freshly
\* loaded working copy, replaying the log oldest-first against the provider's
\* contents, as commit does, gives the key -> value content of the working copy.
C1_LogReplaysToWorkingCopy ==
    (pc = "idle" /\ hist.fresh) =>
        Pairs(ReplayLog(undo_stack, provider_data)) = Pairs(all_vars)

C3_FailedCommitKeepsSuffix ==
    CommitFailed =>
        /\ undo_stack = SubSeq(hist.log0, hist.k, Len(hist.log0))
        /\ dirty
        /\ provider_data =
             ReplayCalls(CallsOfLog(SubSeq(hist.log0, 1, hist.k - 1))
                           \o SubSeq(ProviderCalls(hist.log0[hist.k]), 1, hist.j),
                         hist.data0)

\* C3 witness: a log of two actions whose second action failed after the first
\* changed the provider.
C3_Witness ==
    /\ CommitFailed
    /\ Len(hist.log0) = 2
    /\ hist.k = 2
    /\ provider_data # hist.data0

\* C4: after a failed commit no action that is still in the log has had any of
\* its provider calls take effect: the provider holds exactly the effects of the
\* actions that left the log.
C4_NoPartialAction ==
    CommitFailed =>
        provider_data = ReplayLog(SubSeq(hist.log0, 1, hist.k - 1), hist.data0)

\* C5: a direct retry of a failed commit whose calls all succeed ends with an
\* empty log and dirty false, leaves the provider as one fully successful commit
\* of the original log would have, and over the whole chain every action of the
\* original log was committed exactly once, in order.
C5_RetryCompletes ==
    (CommitSucceeded /\ hist.retry) =>
        /\ undo_stack = << >>
        /\ ~dirty
        /\ provider_data = ReplayLog(hist.chain_log, hist.chain_data)
        /\ hist.chain_done = hist.chain_log

\* C5 witness: a retry succeeded after the first attempt had committed one
\* action of two and failed on the other.
C5_Witness ==
    /\ CommitSucceeded
    /\ hist.retry
    /\ Len(hist.chain_log) = 2
    /\ Len(hist.log0) = 1

\* C6: a commit whose provider calls all succeed leaves the log empty and dirty
\* false, for a log of any length.
C6_FullCommitClears == CommitSucceeded => (Len(undo_stack) = 0 /\ dirty = FALSE)

\* C6 witness: a first-try commit of a log of MaxLog actions succeeded.
C6_Witness == CommitSucceeded /\ ~hist.retry /\ Len(hist.log0) = MaxLog

\* C7, the calls the claim gives for one action.
C7_CallsFor(action) ==
    CASE action.kind = "SET" /\ action.previous_value = None ->
            << Call("create", action.key, action.value) >>
      [] action.kind = "SET" /\ action.previous_value # None ->
            << Call("update", action.key, action.value) >>
      [] action.kind = "DELETE" ->
            << Call("delete", action.key, None) >>
      [] action.kind = "RENAME" ->
            << Call("delete", action.old_key, None),
               Call("create", action.key, action.value) >>

RECURSIVE C7_CallsForLog(_)
C7_CallsForLog(log) ==
    IF log = << >> THEN << >>
    ELSE C7_CallsFor(Head(log)) \o C7_CallsForLog(Tail(log))

\* C7: the provider calls a commit has issued so far are, in order, the first
\* calls of the log's actions taken oldest first; while it runs, the calls of
\* all actions before the current one have returned and no call of a later
\* action was issued; a commit that ran to its end issued them all.
C7_CallsInLogOrder ==
    hist.op \in {"commit", "commit_ok", "commit_failed"} =>
        LET expected == C7_CallsForLog(hist.log0)
        IN  /\ Len(hist.calls) <= Len(expected)
            /\ hist.calls = SubSeq(expected, 1, Len(hist.calls))
            /\ pc = "commit" =>
                 Len(hist.calls) =
                    Len(C7_CallsForLog(SubSeq(hist.log0, 1, commit_i - 1))) + commit_j
            /\ hist.op = "commit_ok" => hist.calls = expected

\* C7 witness: a commit of an edit and a rename ran to its end.
C7_Witness ==
    /\ CommitSucceeded
    /\ \E i, j \in 1..Len(hist.log0) :
          /\ i < j
          /\ hist.log0[i].kind = "SET"
          /\ hist.log0[i].previous_value # None
          /\ hist.log0[j].kind = "RENAME"

\* C9: no two entries of the working copy have the same key.
C9_KeysUnique ==
    \A i, j \in 1..Len(all_vars) : i # j => all_vars[i].key # all_vars[j].key

C8_DirtyIffLogNonEmpty == dirty <=> (undo_stack # << >>)

\* C8 witness: a switch of environment cleared a staged change.
C8_SwitchWitness ==
    /\ hist.op = "switch"
    /\ ~dirty
    /\ undo_stack = << >>
    /\ Pairs(all_vars) # Pairs(provider_data)

\* ------------------------------------------- claims on pairs of operations
KeysOf(seq) == {seq[i].key : i \in 1..Len(seq)}

Top(stack) == stack[Len(stack)]

Front(seq) == SubSeq(seq, 1, Len(seq) - 1)

ValueIn(seq, key) == seq[FirstIndex(seq, key)].value

\* The entries of a log that name key, as key or as old_key.
EntriesFor(log, key) == SelectSeq(log, LAMBDA a : a.key = key \/ a.old_key = key)

EntriesNotFor(log, key) == SelectSeq(log, LAMBDA a : a.key # key /\ a.old_key # key)

\* The last operation was stage_set of a key that was absent from the working copy.
JustAdded ==
    /\ hist.op = "stage_set"
    /\ undo_stack # << >>
    /\ Top(undo_stack).key \notin KeysOf(hist.pre.vars)

\* The step is stage_delete of key.
DeletesKey(key) ==
    /\ hist'.op = "stage_delete"
    /\ key \in WorkingKeys
    /\ key \notin KeysOf(all_vars')

\* C11: stage_set of an absent key followed at once by stage_delete of that key
\* leaves the log exactly as it was before the stage_set, the working copy
\* without the key, and dirty equal to whether that log is non-empty.
C11_AddThenDeleteCancels ==
    [][(JustAdded /\ DeletesKey(Top(undo_stack).key)) =>
          /\ undo_stack' = hist.pre.log
          /\ Top(undo_stack).key \notin KeysOf(all_vars')
          /\ dirty' = (hist.pre.log # << >>)]_vars

\* C12: when the only log entry for a provider-known key K is one edit
\* Set(K, edited, previous_value = orig), stage_delete(K) leaves exactly one
\* entry for K, Delete(K, orig), and the entries of other keys as they were.
C12_EditThenDeleteIsDeleteOfOriginal ==
    [][\A key \in Keys :
          (/\ DeletesKey(key)
           /\ DictGet(provider_data, key) # None
           /\ Len(EntriesFor(undo_stack, key)) = 1
           /\ EntriesFor(undo_stack, key)[1].kind = "SET"
           /\ EntriesFor(undo_stack, key)[1].key = key
           /\ EntriesFor(undo_stack, key)[1].previous_value = DictGet(provider_data, key)) =>
              /\ EntriesFor(undo_stack', key) =
                   << Action("DELETE", key, DictGet(provider_data, key), None, None) >>
              /\ EntriesNotFor(undo_stack', key) = EntriesNotFor(undo_stack, key)]_vars

\* C12 witness: a stage_delete replaced the edit of a provider-known key by a
\* Delete that carries the provider's value, not the edited one.
C12_Witness ==
    /\ hist.op = "stage_delete"
    /\ hist.prev_op = "stage_set"
    /\ Len(hist.pre.log) = 2
    /\ Len(undo_stack) = 2
    /\ Top(hist.pre.log).kind = "SET"
    /\ Top(hist.pre.log).previous_value = DictGet(provider_data, Top(hist.pre.log).key)
    /\ Top(hist.pre.log).previous_value # None
    /\ Top(undo_stack).kind = "DELETE"
    /\ Top(undo_stack).key = Top(hist.pre.log).key
    /\ Top(undo_stack).value = DictGet(provider_data, Top(undo_stack).key)
    /\ Top(undo_stack).value # Top(hist.pre.log).value

\* C13: stage_rename(K, K2) of a provider-known key followed at once by
\* stage_delete(K2) replaces the Rename by one Delete(K, value): the log is the
\* log of before the rename with that Delete appended, and the working copy
\* holds neither K nor K2.
C13_RenameThenDeleteIsDeleteOfOldKey ==
    [][(/\ hist.op = "stage_rename"
        /\ undo_stack # << >>
        /\ Top(undo_stack).kind = "RENAME"
        /\ DictGet(provider_data, Top(undo_stack).old_key) # None
        /\ DeletesKey(Top(undo_stack).key)) =>
          /\ undo_stack' = Append(hist.pre.log,
                Action("DELETE", Top(undo_stack).old_key, Top(undo_stack).value, None, None))
          /\ Top(undo_stack).key \notin KeysOf(all_vars')
          /\ Top(undo_stack).old_key \notin KeysOf(all_vars')]_vars

\* C14: stage_set of an absent key followed at once by undo gives back the
\* working copy (entries, values, order) and the log of before the stage_set.
C14_AddThenUndoRestores ==
    [][(JustAdded /\ hist'.op = "undo") =>
          /\ all_vars' = hist.pre.vars
          /\ undo_stack' = hist.pre.log]_vars

\* C14 witness: an add on top of a non-empty log was undone.
C14_Witness ==
    /\ hist.op = "undo"
    /\ hist.prev_op = "stage_set"
    /\ Len(hist.pre.log) = 2
    /\ Top(hist.pre.log).kind = "SET"
    /\ Top(hist.pre.log).previous_value = None
    /\ Len(hist.pre.vars) = 2
    /\ Len(all_vars) = 1
    /\ undo_stack = Front(hist.pre.log)

\* C15: stage_delete of a key of the working copy followed at once by undo
\* leaves the working copy holding the key with the value it had just before
\* the delete.
C15_DeleteThenUndoRestores ==
    [][(hist.op = "stage_delete" /\ hist'.op = "undo") =>
          \A key \in KeysOf(hist.pre.vars) \ WorkingKeys :
              /\ key \in KeysOf(all_vars')
              /\ ValueIn(all_vars', key) = ValueIn(hist.pre.vars, key)]_vars

C17_SwitchReloads ==
    hist.op = "switch" =>
        /\ undo_stack = << >>
        /\ ~dirty
        /\ all_vars = ListVars(provider_data)
        /\ ~provider_injected =>
              all_vars = ReloadedVars(current_project, current_env)

\* C18: a navigation goes ahead while dirty only when the user confirmed the
\* prompt, and while clean without a prompt; the project changes only by a
\* navigation that went ahead, and the environment only by the wake-up of one.
C18_DirtyNavigationNeedsConfirm ==
    [][/\ (current_project' # current_project \/ Len(nav') > Len(nav)) =>
             /\ hist'.op = "navigate"
             /\ dirty => (hist'.prompted /\ hist'.confirmed)
             /\ ~dirty => ~hist'.prompted
             /\ UNCHANGED << all_vars, undo_stack, dirty, current_env >>
       /\ (current_env' # current_env) =>
             (hist'.op = "switch" /\ nav # << >> /\ current_env' = Head(nav))]_vars

\* C18 witness: a navigation to another project went ahead from a dirty state
\* after the user confirmed the prompt.
C18_Witness ==
    /\ hist.op = "navigate"
    /\ dirty
    /\ hist.prompted
    /\ hist.confirmed
    /\ current_project = "infra"
    /\ nav = << "staging" >>

\* ------------------------------------------------ claims on the drill-in session
\* The step closes, by save, a session in which an inner mutation occurred.
SavesDirtySession ==
    /\ session.open
    /\ session.dirty
    /\ ~session'.open
    /\ hist'.op \in {"stage_set", "session_save"}

\* The Set a save of the session stages on the outer engine.
SetOfSession(session_) ==
    Action("SET", session_.key, encode_dotenv_blob(session_.vars), session_.blob, None)

\* C19, as claimed: saving a session in which at least one inner mutation
\* occurred is exactly one stage_set on the outer engine with the encoded inner
\* list as value: the outer log grows by exactly that one Set.
C19_DirtySaveStagesOneSet ==
    [][SavesDirtySession =>
          /\ hist'.op = "stage_set"
          /\ undo_stack' = Append(undo_stack, SetOfSession(session))]_vars

\* C19, amended: saving such a session is exactly one stage_set with the
\* encoded inner list as value when that blob differs from the blob the session
\* was opened with, whatever the number of inner mutations; when the blob is
\* the same, nothing is staged and the outer engine is left as it was.
C19_DirtySaveStagesOneSetIfBlobChanged ==
    [][SavesDirtySession =>
          IF encode_dotenv_blob(session.vars) # session.blob
          THEN /\ hist'.op = "stage_set"
               /\ undo_stack' = Append(undo_stack, SetOfSession(session))
               /\ ValueIn(all_vars', session.key) = encode_dotenv_blob(session.vars)
               /\ KeysOf(all_vars') = KeysOf(all_vars)
               /\ dirty'
          ELSE /\ hist'.op = "session_save"
               /\ UNCHANGED << all_vars, undo_stack, dirty >>]_vars

\* C19 witness: a session that needed two inner edits was saved on top of a
\* non-empty outer log, which grew by the one Set of the encoded blob.
C19_Witness ==
    /\ hist.op = "stage_set"
    /\ hist.prev_op \in {"inner_add", "inner_edit", "inner_rename", "inner_delete"}
    /\ Len(hist.pre.log) = 1
    /\ undo_stack = Append(hist.pre.log,
                           Action("SET", "K1", "X=b\\nY=a", "X=a\\nY=b", None))
    /\ ValueIn(all_vars, "K1") = "X=b\\nY=a"

\* C20: a session closed by cancel, or saved with no inner mutation, leaves the
\* outer working copy, log, dirty flag and the provider as they were; a dirty
\* session is closed by cancel only after the user confirmed the prompt, and a
\* declined cancel leaves it open with its inner list and its flag intact.
C20_CancelLeavesOuterAndNeedsConfirm ==
    [][/\ (session.open /\ ~session'.open
             /\ (hist'.op = "session_cancel" \/ ~session.dirty)) =>
             UNCHANGED << all_vars, undo_stack, dirty, provider_data >>
       /\ (session.open /\ session.dirty /\ ~session'.open
             /\ hist'.op \notin {"stage_set", "session_save"}) =>
             (hist'.op = "session_cancel" /\ hist'.prompted /\ hist'.confirmed)
       /\ (session.open /\ ~session.dirty /\ hist'.op = "session_cancel") =>
             (~session'.open /\ ~hist'.prompted)
       /\ (hist'.op = "cancel_declined") =>
             (session.dirty /\ session' = session
                /\ UNCHANGED << all_vars, undo_stack, dirty, provider_data >>)]_vars

\* C20 witness: with a change staged outside, a session with an inner mutation
\* was cancelled, the user declining first and confirming the second time, and
\* the outer engine is as it was.
C20_Witness ==
    /\ hist.op = "session_cancel"
    /\ hist.prev_op = "cancel_declined"
    /\ hist.prompted
    /\ hist.confirmed
    /\ ~session.open
    /\ dirty
    /\ undo_stack # << >>
    /\ all_vars = hist.pre.vars
    /\ undo_stack = hist.pre.log

\* ------------------------------------------------ claims on the multiline flag
\* C21: every entry of the working copy carries the flag that is_multiline
\* gives for its current value.
C21_FlagDerivedFromValue ==
    \A i \in 1..Len(all_vars) :
        all_vars[i].is_multiline = is_multiline(all_vars[i].value)

\* ------------------------------------------------------ claims on the codec
\* s contains the substring t.
Contains(s, t) == \E i \in 1..(Len(s) - Len(t) + 1) : SubSeq(s, i, i + Len(t) - 1) = t

\* C22, the lists the claim is about: unique non-empty keys that hold neither
\* '=' nor the marker, values that hold no marker.
C22_Encodable(list) ==
    /\ \A i, j \in 1..Len(list) : i # j => list[i].key # list[j].key
    /\ \A i \in 1..Len(list) :
          /\ list[i].key # ""
          /\ ~Contains(list[i].key, "=")
          /\ ~Contains(list[i].key, Marker)
          /\ ~Contains(list[i].value, Marker)

\* C22: parse_dotenv_blob(encode_dotenv_blob(vars)) is vars, entry for entry
\* and in the same order, for every such list.
C22_ParseAfterEncodeIsIdentity ==
    (codec.op = "encode_parse" /\ C22_Encodable(codec.arg_list)) =>
        codec.list = codec.arg_list

\* C23, the entry the claim gives for one marker-separated line, << >> when the
\* line gives none: a line is taken as written, a comment being a line whose
\* first non-blank character is '#'.
C23_EntryOf(line) ==
    LET eq == FindChar(line, "=")
        key == Strip(SubSeq(line, 1, eq - 1))
        value == SubSeq(line, eq + 1, Len(line))
    IN  IF Strip(line) = "" \/ StartsWith(Strip(line), "#") \/ eq = 0 \/ key = ""
        THEN << >>
        ELSE << EnvVar(key, value) >>

RECURSIVE C23_EntriesOf(_)
C23_EntriesOf(lines) ==
    IF lines = << >> THEN << >>
    ELSE C23_EntryOf(Head(lines)) \o C23_EntriesOf(Tail(lines))

\* C23: parse_dotenv_blob returns, in line order, one entry for each line that
\* is non-blank, is no comment, holds '=' and has a non-empty key: the key is
\* the text before the first '=' trimmed, the value the text after the first
\* '=' exactly as written.
C23_ParseKeepsValuesAsWritten ==
    codec.op = "parse" => codec.list = C23_EntriesOf(SplitMarker(codec.arg_text))

\* Characters i..j of s are one whole marker-separated line of s.
C24_IsLine(s, i, j) ==
    /\ i = 1 \/ (i >= 3 /\ SubSeq(s, i - 2, i - 1) = Marker)
    /\ j = Len(s) \/ (j + 2 <= Len(s) /\ SubSeq(s, j + 1, j + 2) = Marker)
    /\ ~Contains(SubSeq(s, i, j), Marker)

\* C24: is_multiline(value) is true exactly when value holds the marker and one
\* of its marker-separated lines is non-blank, does not start with '#' and
\* holds '='; so it is false for the empty string, without a marker, and when
\* every line is a comment or plain text.
C24_IsMultilineIffMarkerAndAssignment ==
    codec.op = "is_multiline" =>
        LET s == codec.arg_text
        IN  codec.flag <=>
               /\ Contains(s, Marker)
               /\ \E i, j \in 1..Len(s) :
                     /\ i <= j
                     /\ C24_IsLine(s, i, j)
                     /\ \E k \in i..j : ~IsSpace(SubSeq(s, k, k))
                     /\ SubSeq(s, i, i) # "#"
                     /\ \E k \in i..j : SubSeq(s, k, k) = "="

\* C24 witness: a value whose first line is a comment that holds '=' and whose
\* second line is an assignment was classified as multiline.
C24_Witness ==
    /\ codec.op = "is_multiline"
    /\ codec.arg_text = "#=\\nX="
    /\ codec.flag

\* --------------------------------------------------- claims on the providers
\* The step is a create, update or delete on the provider called directly.
IsWrite == remote'.result.op \in {"create", "update", "delete"} /\ remote'.calls # remote.calls

\* C25: on both remote providers a create, update or delete whose transport
\* call fails raises and leaves the cache, and the hybrid provider's name list,
\* as they were; the cache changes only in a step whose transport call
\* succeeded, which is a step that changed the vault in the same way.
C25_FailedWriteLeavesCache ==
    [][IsWrite =>
          /\ remote'.result.raised =>
                /\ provider_data' = provider_data
                /\ remote'.names = remote.names
                /\ remote'.vault = remote.vault
          /\ (provider_data' # provider_data \/ remote'.names # remote.names) =>
                /\ ~remote'.result.raised
                /\ remote'.vault =
                     ProviderApply(remote.vault,
                        Call(remote'.result.op, remote'.result.key,
                             DictGet(provider_data', remote'.result.key)))]_vars

\* C25 witness: a delete of a listed and cached key failed on the hybrid
\* provider after an earlier create had succeeded.
C25_Witness ==
    /\ remote.kind = "hybrid"
    /\ remote.result.op = "delete"
    /\ remote.result.raised
    /\ DictGet(provider_data, remote.result.key) \in Values
    /\ \E i \in 1..Len(remote.names) : remote.names[i] = remote.result.key
    /\ DictGet(remote.vault, remote.result.key) = DictGet(provider_data, remote.result.key)

\* C26: on the hybrid provider, get(key) of a key that is listed and whose
\* value is not fetched yet returns something else than get of a key that is
\* absent from the vault and from the cache.
C26_LoadingDiffersFromAbsent ==
    (/\ remote.kind = "hybrid"
     /\ remote.result.op = "get"
     /\ \E i \in 1..Len(provider_data) :
           /\ provider_data[i].key = remote.result.key
           /\ provider_data[i].value = None) =>
        \A absent \in Keys \ KeysOf(provider_data) :
            remote.result.value # DictGet(provider_data, absent)

\* C27: with an injected provider none of whose create, update or delete has
\* ever returned, a user add of a new variable or a user delete of an existing
\* one, made on an empty undo stack, leaves the undo stack empty and dirty
\* false.
C27_FailingProviderKeepsClean ==
    [][(/\ provider_injected
        /\ hist.fresh
        /\ undo_stack = << >>
        /\ \/ hist'.op = "stage_set" /\ KeysOf(all_vars') # KeysOf(all_vars)
           \/ hist'.op = "stage_delete") =>
          (undo_stack' = << >> /\ ~dirty')]_vars

\* ------------------------------------------- claims on the collapse of a delete
\* C28: when a provider-known key K with value orig has been edited two or more
\* times and the log holds nothing else for K, stage_delete(K) leaves no Set for
\* K in the log and exactly one Delete for K, which carries orig.
C28_EditsThenDeleteIsDeleteOfOriginal ==
    [][\A key \in Keys :
          LET mine == EntriesFor(undo_stack, key)
              orig == DictGet(provider_data, key)
          IN  (/\ DeletesKey(key)
               /\ orig # None
               /\ Len(mine) >= 2
               /\ \A i \in 1..Len(mine) :
                     /\ mine[i].kind = "SET"
                     /\ mine[i].key = key
                     /\ mine[i].previous_value # None
               /\ mine[1].previous_value = orig) =>
                  EntriesFor(undo_stack', key) =
                     << Action("DELETE", key, orig, None, None) >>]_vars

\* A sequence without its element at index p.
RemoveAt(seq, p) == SubSeq(seq, 1, p - 1) \o SubSeq(seq, p + 1, Len(seq))

\* C29: when stage_delete(K) collapses against a prior staged action, the
\* entry that leaves the log is the most recent entry for K, the one the
\* reverse search found, also when an earlier entry has equal fields; every
\* other entry stays, in its order, and at most one Delete is appended.
C29_CollapseRemovesMostRecentEntry ==
    [][\A key \in Keys :
          LET p == LastIndex(undo_stack, key)
              rest == RemoveAt(undo_stack, p)
          IN  (/\ DeletesKey(key)
               /\ p # 0
               /\ \/ undo_stack[p].kind = "SET"
                  \/ undo_stack[p].kind = "RENAME" /\ undo_stack[p].old_key # None) =>
                  \/ undo_stack' = rest
                  \/ /\ undo_stack' # << >>
                     /\ Front(undo_stack') = rest
                     /\ Top(undo_stack').kind = "DELETE"]_vars

\* ------------------------------------------------- claims on the log length
\* The step appends exactly one entry of the given kind to the log.
AppendsOne(kind) ==
    /\ Len(undo_stack') = Len(undo_stack) + 1
    /\ Front(undo_stack') = undo_stack
    /\ Top(undo_stack').kind = kind

C31_RenameThenUndoRestores ==
    [][(/\ hist.op = "stage_rename"
        /\ undo_stack = Append(hist.pre.log, Top(undo_stack))
        /\ Top(undo_stack).kind = "RENAME"
        /\ Top(undo_stack).old_key \in KeysOf(hist.pre.vars)
        /\ Top(undo_stack).key \notin KeysOf(hist.pre.vars)
        /\ hist'.op = "undo") =>
          /\ all_vars' = hist.pre.vars
          /\ undo_stack' = hist.pre.log
          /\ dirty' = hist.pre.dirty]_vars

\* C31 witness: a rename staged on top of a non-empty log was undone, and the
\* working copy holds the old key again, with its value.
C31_Witness ==
    /\ hist.op = "undo"
    /\ hist.prev_op = "stage_rename"
    /\ Len(hist.pre.log) = 2
    /\ Top(hist.pre.log).kind = "RENAME"
    /\ Top(hist.pre.log).key \in KeysOf(hist.pre.vars)
    /\ Top(hist.pre.log).key \notin WorkingKeys
    /\ Top(hist.pre.log).old_key \in WorkingKeys
    /\ ValueIn(all_vars, Top(hist.pre.log).old_key) = Top(hist.pre.log).value
    /\ undo_stack = Front(hist.pre.log)
    /\ dirty

\* C32: stage_delete of a key absent from the working copy, stage_rename of an
\* old_key absent from it, and undo on an empty log each leave the working
\* copy, the log and the dirty flag as they were.
C32_NoOpsLeaveStaging ==
    [][((\E key \in Keys \ WorkingKeys : StageDelete(key))
        \/ (\E old_key \in Keys \ WorkingKeys, new_key \in Keys :
               StageRename(old_key, new_key))
        \/ (hist'.op = "undo" /\ undo_stack = << >>)) =>
          UNCHANGED << all_vars, undo_stack, dirty >>]_vars

\* C32 witness: with one entry in the working copy and a staged change in the
\* log, a stage_delete of an absent key came after a stage_rename of an absent
\* old_key, and neither moved anything.
C32_Witness ==
    /\ hist.op = "stage_delete"
    /\ hist.prev_op = "stage_rename"
    /\ hist.pre = Snapshot
    /\ Len(all_vars) = 1
    /\ Len(undo_stack) = 1
    /\ dirty

\* C32 witness of the third no-op: an undo on an empty log, on a working copy
\* that holds an entry.
C32_UndoWitness ==
    /\ hist.op = "undo"
    /\ hist.prev_op = "undo"
    /\ hist.pre = Snapshot
    /\ undo_stack = << >>
    /\ all_vars # << >>

\* -------------------------------------------- claims on the hybrid provider
\* The most recent log entry for key is a staged add.
LastEntryIsAdd(stack, key) ==
    /\ \E i \in 1..Len(stack) : stack[i].key = key
    /\ LET p == CHOOSE i \in 1..Len(stack) :
                   stack[i].key = key /\ \A j \in (i + 1)..Len(stack) : stack[j].key # key
       IN  stack[p].kind = "SET" /\ stack[p].previous_value = None

\* C33: a key whose most recent log entry is a staged add is not stopped by
\* the "still loading" guard of edit and delete, whatever the provider has
\* loaded, and a delete of it removes that entry from the log and leaves
\* dirty equal to whether entries remain.
C33_StagedAddBypassesGuard ==
    [][\A key \in WorkingKeys :
          LastEntryIsAdd(undo_stack, key) =>
             /\ ~LoadingGuard(key)
             /\ DeletesKey(key) =>
                   /\ undo_stack' = RemoveAt(undo_stack, LastIndex(undo_stack, key))
                   /\ dirty' = (undo_stack' # << >>)]_vars

\* The guard part of C33 alone, and the entry count after the delete.
C33_StagedAddNotBlocked ==
    [][\A key \in WorkingKeys :
          LastEntryIsAdd(undo_stack, key) =>
             /\ ~LoadingGuard(key)
             /\ DeletesKey(key) =>
                   /\ Len(undo_stack') = Len(undo_stack) - 1
                   /\ dirty' = (undo_stack' # << >>)]_vars

\* C34: whenever the log is empty and no commit is running, the key -> value
\* map of the working copy equals that of the current provider.
C34_CleanWorkingCopyIsProvider ==
    (undo_stack = << >> /\ pc = "idle") => Pairs(all_vars) = Pairs(provider_data)

\* The list of entries shows what the most recent log entry of each key staged:
\* a set or renamed key is there with the staged value, a deleted key is not.
ReflectsLog(vars_, stack) ==
    \A key \in Keys :
        LET p == LastIndex(stack, key)
        IN  p # 0 =>
              IF stack[p].kind = "DELETE"
              THEN key \notin KeysOf(vars_)
              ELSE key \in KeysOf(vars_) /\ ValueIn(vars_, key) = stack[p].value

\* C35: when _update_values refreshes the working copy from list_vars() while
\* the log is non-empty, the working copy afterwards still shows every staged
\* action of the log.
C35_RefreshKeepsStagedChanges ==
    [][(worker.pc = "posted" /\ worker'.pc = "done" /\ undo_stack # << >>) =>
          ReflectsLog(all_vars', undo_stack')]_vars

\* The provider calls of the last commit that returned: all of them, or all but
\* the one that raised.
SuccessfulCalls == IF hist.op = "commit_ok" THEN hist.calls ELSE Front(hist.calls)

\* C36: once a commit and fetch_all_values have both finished, however their
\* steps interleaved, the cache holds no key whose last successful commit call
\* was a delete, and holds the committed value of every key whose last
\* successful commit call was a create or an update.
C36_CacheKeepsCommittedWrites ==
    (/\ pc = "idle"
     /\ hist.op \in {"commit_ok", "commit_failed"}
     /\ worker.pc \in {"posted", "done", "failed"}) =>
        \A key \in Keys :
            LET p == LastIndex(SuccessfulCalls, key)
            IN  p # 0 =>
                  IF SuccessfulCalls[p].op = "delete"
                  THEN key \notin KeysOf(provider_data)
                  ELSE DictGet(provider_data, key) = SuccessfulCalls[p].value

\* fetch_all_values has returned without raising.
FetchReturned == worker.pc \in {"posted", "done"}

\* C37: once the background fetch_all_values has returned without error, the
\* values-loaded flag of the provider is eventually true, whatever the vault
\* holds, so that action_add_var is no longer blocked.
C37_FetchedMeansLoaded == FetchReturned ~> (remote.loaded /\ ~AddBlocked)

\* ------------------------------------------------ claims on commit and codec
\* C38: every step of a commit, from its start to its end or to the call that
\* raises, leaves the working copy as it is and only takes entries out of
\* the log.
C38_CommitLeavesWorkingCopy ==
    [][(pc = "commit" \/ pc' = "commit") =>
          /\ all_vars' = all_vars
          /\ Len(undo_stack') <= Len(undo_stack)
          /\ \A i \in 1..Len(undo_stack') :
                \E j \in 1..Len(undo_stack) : undo_stack'[i] = undo_stack[j]]_vars

\* C38 witness: a commit stopped at its second action after the first was
\* written, and the working copy still shows both staged changes, which the
\* provider does not hold.
C38_Witness ==
    /\ CommitFailed
    /\ hist.k = 2
    /\ Len(hist.log0) = 2
    /\ Len(undo_stack) = 1
    /\ undo_stack[1] = hist.log0[2]
    /\ provider_data # hist.data0
    /\ ReflectsLog(all_vars, hist.log0)
    /\ Pairs(all_vars) # Pairs(provider_data)

\* C38 witness of a commit that ran to its end with the working copy in an
\* order the provider does not have.
C38_SuccessWitness ==
    /\ CommitSucceeded
    /\ Len(hist.log0) = 2
    /\ Len(all_vars) = 2
    /\ Pairs(all_vars) = Pairs(provider_data)
    /\ all_vars # ListVars(provider_data)

\* C39: a value that is_multiline classifies as a multiline blob parses to at
\* least one inner variable.
C39_MultilineParsesToSomething ==
    (codec.op = "is_multiline" /\ codec.flag) =>
        parse_dotenv_blob(codec.arg_text) # << >>

====
